---- MODULE Spec2Model ----
(***************************************************************************)
(* A model of src/downloader.py: FileDownloader.download_file (one         *)
(* resumable transfer per target) run by FileDownloader.download_files on  *)
(* a ThreadPoolExecutor.                                                   *)
(*                                                                         *)
(* Sizes are counted in chunks (one chunk = one iteration of               *)
(* response.iter_content, line 99).  A file is the sequence of body chunk  *)
(* numbers it holds, so that a duplicated or missing range is visible.     *)
(* The server, the network and the connectivity endpoint are the           *)
(* environment: every network call draws its outcome from the exception    *)
(* classes that the code's try/except distinguishes.                       *)
(***************************************************************************)
EXTENDS Integers, Sequences, FiniteSets, TLC

\* ---------------------------------------------------------------- bounds
\* max_retries given to the constructor (line 33); the default is MAX_RETRIES.
MaxRetries == 1
\* Length of the remote body, in chunks.
FileChunks == 3
\* Connectivity losses in the middle of a body, per target (losses while
\* connecting are not bounded).
MaxInterrupts == 1

\* The targets (basenames of URLS); "a" alone or "a" and "b" are submitted.
Targets == {"a", "b"}

\* ------------------------------------------------------------ files
Body == [i \in 1..FileChunks |-> i]

Prefix(k) == [i \in 1..k |-> i]

\* A path that does not exist (chunk numbers start at 1).
Absent == <<0>>

Exists(f) == f # Absent

\* _get_existing_download_size: getsize if the path exists, else 0.
SizeOf(f) == IF Exists(f) THEN Len(f) ELSE 0

\* No Range header (headers = {}).
NoRange == -1

\* ------------------------------------------------------------ environment
\* What the server of a target and the network on the way to it may do.
\*   probefail   the HEAD fails or carries no Content-Length
\*   connloss    a GET or a body read ends in requests.ConnectionError,
\*               ProtocolError or IncompleteRead
\*   reqerr      a GET or a body read ends in another RequestException
\*   norange     the server ignores Range and answers 200 with the full body
\*   unreachable the connectivity check gets a ConnectionError
\*   checkraise  the connectivity check ends in a RequestException that is
\*               not a ConnectionError (a read timeout)
AllFaults == {"probefail", "connloss", "reqerr", "norange", "unreachable", "checkraise"}

\* The servers of a one-target run and of a two-target run.
DeepProfiles == {AllFaults, AllFaults \ {"norange"}}

BatchProfiles == {{}, {"reqerr"}, {"connloss", "unreachable", "checkraise"}}

VARIABLES
    \* download_files (the main thread) and the executor
    mainpc, urls, max_workers, queue, collected, closed,
    \* download_file, per target
    pc, total_size, start_bytes, headers, retries, status, bodyPos,
    \* the file system
    temp, final,
    \* the progress bars and their lock
    n, progress_lock,
    \* the environment
    faults, interrupts,
    \* history: the files at the start, the GETs issued, the errors seen,
    \* the times download_file was entered, the network event behind the
    \* exception being handled
    temp0, final0, gets, errs, runs, cause

poolVars == <<mainpc, urls, max_workers, queue, collected, closed>>
localVars == <<total_size, start_bytes, headers, retries, status, bodyPos>>
fileVars == <<temp, final>>
envVars == <<faults, interrupts>>
histVars == <<temp0, final0, gets, errs, runs, cause>>
vars == <<poolVars, pc, localVars, fileVars, n, progress_lock, envVars, histVars>>

Terminal == {"completed", "failed", "raised"}

\* The transfers that hold a worker thread.
Running == {t \in Targets : pc[t] \notin ({"idle", "queued"} \cup Terminal)}

RECURSIVE SeqToSet(_)
SeqToSet(s) == IF s = <<>> THEN {} ELSE {Head(s)} \cup SeqToSet(Tail(s))

\* ------------------------------------------------------------ Init
TempChoices == {Absent} \cup {Prefix(k) : k \in 0..FileChunks}

FinalChoices == {Absent, <<>>, Body}

InitCommon ==
    /\ mainpc = "start"
    /\ queue = <<>>
    /\ collected = {}
    /\ closed = FALSE
    /\ pc = [t \in Targets |-> "idle"]
    /\ total_size = [t \in Targets |-> 0]
    /\ start_bytes = [t \in Targets |-> 0]
    /\ headers = [t \in Targets |-> NoRange]
    /\ retries = [t \in Targets |-> 0]
    /\ status = [t \in Targets |-> 0]
    /\ bodyPos = [t \in Targets |-> 0]
    /\ n = [t \in Targets |-> 0]
    /\ progress_lock = "free"
    /\ interrupts = [t \in Targets |-> 0]
    /\ gets = [t \in Targets |-> 0]
    /\ errs = [t \in Targets |-> "none"]
    /\ runs = [t \in Targets |-> 0]
    /\ cause = [t \in Targets |-> "none"]
    /\ temp0 = temp
    /\ final0 = final

\* One target, any server, any files left by an earlier run.
InitDeep ==
    /\ urls = <<"a">>
    /\ max_workers = 1
    /\ \E p \in DeepProfiles : faults = [t \in Targets |-> IF t = "a" THEN p ELSE {}]
    /\ \E f \in TempChoices : temp = [t \in Targets |-> IF t = "a" THEN f ELSE Absent]
    /\ \E f \in FinalChoices : final = [t \in Targets |-> IF t = "a" THEN f ELSE Absent]

\* Two targets, no files yet, one or two workers; with two workers at most
\* one of the two servers fails.
InitBatch ==
    /\ urls = <<"a", "b">>
    /\ max_workers \in 1..2
    /\ faults \in [Targets -> BatchProfiles]
    /\ max_workers = 1 \/ \E t \in Targets : faults[t] = {}
    /\ temp = [t \in Targets |-> Absent]
    /\ final = [t \in Targets |-> Absent]

Init == (InitDeep \/ InitBatch) /\ InitCommon


\* ------------------------------------------------------------ download_files
\* Lines 127-149: the bars are created with initial = the temp file's size and
\* one download_file per url is submitted, in order.  (A bar's total, from
\* the probe of line 127, only scales the display and is not modelled.)
Submit ==
    /\ mainpc = "start"
    /\ mainpc' = "collect"
    /\ queue' = urls
    /\ pc' = [t \in Targets |-> IF t \in SeqToSet(urls) THEN "queued" ELSE pc[t]]
    /\ n' = [t \in Targets |-> IF t \in SeqToSet(urls) THEN SizeOf(temp[t]) ELSE n[t]]
    /\ UNCHANGED <<urls, max_workers, collected, closed, localVars, fileVars,
                   progress_lock, envVars, histVars>>

\* An executor that starts a thread for every work item.
HasFreeWorkerAlways == TRUE

\* ThreadPoolExecutor: a work item is taken, first submitted first, only
\* while fewer than max_workers threads are busy.
HasFreeWorker == Cardinality(Running) < max_workers

\* A worker thread takes the next work item and enters download_file.
StartWorker(t) ==
    /\ queue # <<>>
    /\ t = Head(queue)
    /\ HasFreeWorker
    /\ queue' = Tail(queue)
    /\ pc' = [pc EXCEPT ![t] = "probe"]
    /\ runs' = [runs EXCEPT ![t] = runs[t] + 1]
    /\ UNCHANGED <<mainpc, urls, max_workers, collected, closed, localVars, fileVars,
                   n, progress_lock, envVars, temp0, final0, gets, errs, cause>>

\* Collect without the try/except of lines 152-156: what a worker raised
\* leaves download_files, which then neither closes the bars nor returns.
CollectRaising(t) ==
    /\ mainpc = "collect"
    /\ pc[t] \in Terminal
    /\ t \notin collected
    /\ collected' = collected \cup {t}
    /\ mainpc' = IF pc[t] = "raised" THEN "crashed" ELSE mainpc
    /\ UNCHANGED <<urls, max_workers, queue, closed, pc, localVars, fileVars,
                   n, progress_lock, envVars, histVars>>

\* Collect with a failure that ends the batch: a raised future drops the
\* work items still queued and download_files stops collecting.
CollectAborting(t) ==
    /\ mainpc = "collect"
    /\ pc[t] \in Terminal
    /\ t \notin collected
    /\ collected' = collected \cup {t}
    /\ IF pc[t] = "raised"
         THEN /\ queue' = <<>>
              /\ mainpc' = "done"
              /\ closed' = TRUE
         ELSE UNCHANGED <<queue, mainpc, closed>>
    /\ UNCHANGED <<urls, max_workers, pc, localVars, fileVars,
                   n, progress_lock, envVars, histVars>>

\* Lines 151-156: as_completed yields a finished future; result() returns, or
\* raises what the worker raised, which is logged (and slept on) here.
Collect(t) ==
    /\ mainpc = "collect"
    /\ pc[t] \in Terminal
    /\ t \notin collected
    /\ collected' = collected \cup {t}
    /\ UNCHANGED <<mainpc, urls, max_workers, queue, closed, pc, localVars, fileVars,
                   n, progress_lock, envVars, histVars>>

\* The bars closed without waiting for the futures.
CloseBarsEarly ==
    /\ mainpc = "collect"
    /\ mainpc' = "done"
    /\ closed' = TRUE
    /\ UNCHANGED <<urls, max_workers, queue, collected, pc, localVars, fileVars,
                   n, progress_lock, envVars, histVars>>

\* Lines 157-159: every future was yielded, the executor is shut down and the
\* bars are closed; download_files returns.
CloseBars ==
    /\ mainpc = "collect"
    /\ collected = SeqToSet(urls)
    /\ mainpc' = "done"
    /\ closed' = TRUE
    /\ UNCHANGED <<urls, max_workers, queue, collected, pc, localVars, fileVars,
                   n, progress_lock, envVars, histVars>>

\* ------------------------------------------------------------ download_file
\* The short cut taken only for a known, nonzero size.
AlreadyDownloadedNonzero(f, total) == Exists(f) /\ SizeOf(f) = total /\ total > 0

\* Line 77: the file is at the completed location with the probed size.
AlreadyDownloaded(f, total) == Exists(f) /\ SizeOf(f) = total

\* Line 84: the Range header before the loop.
InitialHeaders(sb) == IF sb > 0 THEN sb ELSE NoRange

\* The loop condition off by one.
LoopConditionStrict(r) == r < MaxRetries

\* Line 87: the loop condition.
LoopCondition(r) == r <= MaxRetries

\* Line 91: a resume was meant and the server did not answer 206.
ResumeRefused(sb, st) == sb > 0 /\ st # 206

\* The temp file always opened for appending.
OpenModeAppend(sb) == "ab"

\* Line 97: the mode the temp file is opened in.
OpenMode(sb) == IF sb > 0 THEN "ab" ELSE "wb"

\* Line 118: the Range header after a connectivity loss.
ResumeHeaders(sb) == sb

\* The server's answer to a GET with Range header h: 200 and the whole body
\* without a Range header or when the server ignores it, 206 and the body
\* from h on, 416 when h is not inside the body.
ServerStatus(t, h) ==
    IF h = NoRange \/ "norange" \in faults[t] THEN 200
    ELSE IF h < FileChunks THEN 206 ELSE 416

\* Line 89: what can go wrong with requests.get(url, stream=True, timeout=30)
\* before the body is read.
GetEvents == {"connect_failed", "connect_timeout", "response_timeout", "http_error"}

\* Line 99: what can go wrong while iter_content reads the body.
ReadEvents == {"body_timeout", "body_broken"}

\* Line 89: the events that are the 30 s timeout firing.
TimeoutEvents == {"connect_timeout", "response_timeout", "body_timeout"}

\* Lines 89-90: the exception requests raises for an event of the GET:
\* ConnectTimeout when connecting times out, ReadTimeout when the response
\* does not arrive in time, HTTPError from raise_for_status.
RaisedByGet(ev) ==
    CASE ev = "connect_failed"   -> "ConnectionError"
      [] ev = "connect_timeout"  -> "ConnectTimeout"
      [] ev = "response_timeout" -> "ReadTimeout"
      [] ev = "http_error"       -> "HTTPError"

\* Line 99: the exception iter_content raises for an event of the body read:
\* urllib3's ReadTimeoutError is raised again as requests.ConnectionError,
\* its ProtocolError as ChunkedEncodingError.
RaisedByRead(ev) ==
    CASE ev = "body_timeout" -> "ConnectionError"
      [] ev = "body_broken"  -> "ChunkedEncodingError"

\* Line 112: the except clause matches requests.ConnectionError and its
\* subclasses (ConnectTimeout is one), ProtocolError and IncompleteRead;
\* every other RequestException falls to line 119.
ConnectivityClass(exc) ==
    exc \in {"ConnectionError", "ConnectTimeout", "ProtocolError", "IncompleteRead"}

\* The class of the errors seen so far, with one of class c added.
JoinErr(e, c) == IF e = "none" \/ e = c THEN c ELSE "mixed"

\* Lines 68-85: probe the size, read the temp file's size, and either take
\* the already-downloaded short cut or prepare the first request.
Begin(t) ==
    /\ pc[t] = "probe"
    /\ \E ts \in {FileChunks} \cup (IF "probefail" \in faults[t] THEN {0} ELSE {}) :
         /\ total_size' = [total_size EXCEPT ![t] = ts]
         /\ start_bytes' = [start_bytes EXCEPT ![t] = SizeOf(temp[t])]
         /\ IF AlreadyDownloaded(final[t], ts)
              THEN /\ pc' = [pc EXCEPT ![t] = "sc_lock"]
                   /\ UNCHANGED headers
              ELSE /\ pc' = [pc EXCEPT ![t] = "loop"]
                   /\ headers' = [headers EXCEPT ![t] = InitialHeaders(SizeOf(temp[t]))]
    /\ retries' = [retries EXCEPT ![t] = 0]
    /\ UNCHANGED <<poolVars, status, bodyPos, fileVars, n, progress_lock, envVars, histVars>>

\* Lines 87-89: the loop condition holds and the GET is sent.
IssueGet(t) ==
    /\ pc[t] = "loop"
    /\ LoopCondition(retries[t])
    /\ pc' = [pc EXCEPT ![t] = "get"]
    /\ gets' = [gets EXCEPT ![t] = IF errs[t] \in {"none", "req"} THEN gets[t] + 1 ELSE -1]
    /\ UNCHANGED <<poolVars, localVars, fileVars, n, progress_lock, envVars,
                   temp0, final0, errs, runs, cause>>

\* Giving up that publishes the partial temp file at the completed location.
GiveUpMoving(t) ==
    /\ pc[t] = "loop"
    /\ ~LoopCondition(retries[t])
    /\ final' = [final EXCEPT ![t] = temp[t]]
    /\ temp' = [temp EXCEPT ![t] = Absent]
    /\ pc' = [pc EXCEPT ![t] = "failed"]
    /\ UNCHANGED <<poolVars, localVars, n, progress_lock, envVars, histVars>>

\* Lines 87, 124: the loop condition fails; the failure is logged and
\* download_file returns.
GiveUp(t) ==
    /\ pc[t] = "loop"
    /\ ~LoopCondition(retries[t])
    /\ pc' = [pc EXCEPT ![t] = "failed"]
    /\ UNCHANGED <<poolVars, localVars, fileVars, n, progress_lock, envVars, histVars>>

\* Lines 119-122: a RequestException that is not of the connectivity class.
RequestErrorHandler(t) ==
    /\ retries' = [retries EXCEPT ![t] = retries[t] + 1]
    /\ pc' = [pc EXCEPT ![t] = "retrysleep"]
    /\ bodyPos' = [bodyPos EXCEPT ![t] = 0]
    /\ errs' = [errs EXCEPT ![t] = JoinErr(errs[t], "req")]
    /\ UNCHANGED <<total_size, start_bytes, headers, status>>

\* The connectivity handler counting the loss as a retry.
ConnectionLostCounted(t) ==
    /\ pc' = [pc EXCEPT ![t] = "poll"]
    /\ bodyPos' = [bodyPos EXCEPT ![t] = 0]
    /\ retries' = [retries EXCEPT ![t] = retries[t] + 1]
    /\ errs' = [errs EXCEPT ![t] = JoinErr(errs[t], "conn")]
    /\ UNCHANGED <<total_size, start_bytes, headers, status>>

\* Lines 112-113: ConnectionError, ProtocolError or IncompleteRead.
ConnectionLostHandler(t) ==
    /\ pc' = [pc EXCEPT ![t] = "poll"]
    /\ bodyPos' = [bodyPos EXCEPT ![t] = 0]
    /\ errs' = [errs EXCEPT ![t] = JoinErr(errs[t], "conn")]
    /\ UNCHANGED <<total_size, start_bytes, headers, retries, status>>

\* Lines 89-98: the response has a success status; a refused resume restarts
\* from 0; the temp file is opened, truncated in mode "wb".
GetOK(t) ==
    /\ pc[t] = "get"
    /\ LET st == ServerStatus(t, headers[t])
           refused == ResumeRefused(start_bytes[t], st)
           sb == IF refused THEN 0 ELSE start_bytes[t]
       IN  /\ st \in {200, 206}
           /\ status' = [status EXCEPT ![t] = st]
           /\ start_bytes' = [start_bytes EXCEPT ![t] = sb]
           /\ headers' = [headers EXCEPT ![t] = IF refused THEN NoRange ELSE headers[t]]
           /\ bodyPos' = [bodyPos EXCEPT ![t] = IF st = 206 THEN headers[t] ELSE 0]
           /\ temp' = [temp EXCEPT ![t] =
                          IF OpenMode(sb) = "wb" \/ ~Exists(temp[t]) THEN <<>> ELSE temp[t]]
    /\ pc' = [pc EXCEPT ![t] = "iter"]
    /\ UNCHANGED <<poolVars, total_size, retries, final, n, progress_lock, envVars, histVars>>

\* Lines 89-90, 119: the GET raises a request-level error: a timeout, or the
\* HTTPError of raise_for_status (416 for a range outside the body).
GetRequestError(t) ==
    /\ pc[t] = "get"
    /\ \E ev \in GetEvents :
          /\ ~ConnectivityClass(RaisedByGet(ev))
          /\ \/ "reqerr" \in faults[t]
             \/ ev = "http_error" /\ ServerStatus(t, headers[t]) = 416
          /\ cause' = [cause EXCEPT ![t] = ev]
    /\ RequestErrorHandler(t)
    /\ UNCHANGED <<poolVars, fileVars, n, progress_lock, envVars, temp0, final0, gets, runs>>

\* Lines 89, 112: the GET raises an error of the connectivity class.
GetConnectionLost(t) ==
    /\ pc[t] = "get"
    /\ "connloss" \in faults[t]
    /\ \E ev \in GetEvents :
          /\ ConnectivityClass(RaisedByGet(ev))
          /\ cause' = [cause EXCEPT ![t] = ev]
    /\ ConnectionLostHandler(t)
    /\ UNCHANGED <<poolVars, fileVars, n, progress_lock, envVars, temp0, final0, gets, runs>>

\* Lines 99-102: one chunk arrives and is appended to the open temp file.
StreamChunk(t) ==
    /\ pc[t] = "iter"
    /\ bodyPos[t] < FileChunks
    /\ temp' = [temp EXCEPT ![t] = Append(temp[t], bodyPos[t] + 1)]
    /\ start_bytes' = [start_bytes EXCEPT ![t] = start_bytes[t] + 1]
    /\ bodyPos' = [bodyPos EXCEPT ![t] = bodyPos[t] + 1]
    /\ pc' = [pc EXCEPT ![t] = "ch_lock"]
    /\ UNCHANGED <<poolVars, total_size, headers, retries, status, final, n,
                   progress_lock, envVars, histVars>>

\* Lines 98-99: the body ended without error and the temp file is closed.
StreamEnd(t) ==
    /\ pc[t] = "iter"
    /\ bodyPos[t] = FileChunks
    /\ bodyPos' = [bodyPos EXCEPT ![t] = 0]
    /\ pc' = [pc EXCEPT ![t] = "replace"]
    /\ UNCHANGED <<poolVars, total_size, start_bytes, headers, retries, status, fileVars,
                   n, progress_lock, envVars, histVars>>

\* The temp file copied to the completed location and left in place.
ReplaceByCopy(t) ==
    /\ pc[t] = "replace"
    /\ final' = [final EXCEPT ![t] = temp[t]]
    /\ pc' = [pc EXCEPT ![t] = "cl_lock"]
    /\ UNCHANGED <<poolVars, localVars, temp, n, progress_lock, envVars, histVars>>

\* Lines 106-107: os.replace moves the temp file to the completed location.
Replace(t) ==
    /\ pc[t] = "replace"
    /\ final' = [final EXCEPT ![t] = temp[t]]
    /\ temp' = [temp EXCEPT ![t] = Absent]
    /\ pc' = [pc EXCEPT ![t] = "cl_lock"]
    /\ UNCHANGED <<poolVars, localVars, n, progress_lock, envVars, histVars>>

\* Lines 99, 119: reading the body raises a request-level error.
StreamRequestError(t) ==
    /\ pc[t] = "iter"
    /\ bodyPos[t] < FileChunks
    /\ "reqerr" \in faults[t]
    /\ \E ev \in ReadEvents :
          /\ ~ConnectivityClass(RaisedByRead(ev))
          /\ cause' = [cause EXCEPT ![t] = ev]
    /\ RequestErrorHandler(t)
    /\ UNCHANGED <<poolVars, fileVars, n, progress_lock, envVars, temp0, final0, gets, runs>>

\* Lines 99, 112: reading the body raises an error of the connectivity class.
StreamConnectionLost(t) ==
    /\ pc[t] = "iter"
    /\ bodyPos[t] < FileChunks
    /\ "connloss" \in faults[t]
    /\ interrupts[t] < MaxInterrupts
    /\ interrupts' = [interrupts EXCEPT ![t] = interrupts[t] + 1]
    /\ \E ev \in ReadEvents :
          /\ ConnectivityClass(RaisedByRead(ev))
          /\ cause' = [cause EXCEPT ![t] = ev]
    /\ ConnectionLostHandler(t)
    /\ UNCHANGED <<poolVars, fileVars, n, progress_lock, faults, temp0, final0, gets, runs>>

\* The recovery that gives the transfer a fresh retry budget.
CheckReachableResetRetries(t) ==
    /\ pc[t] = "poll"
    /\ start_bytes' = [start_bytes EXCEPT ![t] = SizeOf(temp[t])]
    /\ headers' = [headers EXCEPT ![t] = ResumeHeaders(SizeOf(temp[t]))]
    /\ retries' = [retries EXCEPT ![t] = 0]
    /\ pc' = [pc EXCEPT ![t] = "loop"]
    /\ cause' = [cause EXCEPT ![t] = "none"]
    /\ UNCHANGED <<poolVars, total_size, status, bodyPos, fileVars, n,
                   progress_lock, envVars, temp0, final0, gets, errs, runs>>

\* The recovery that starts over from offset 0 instead of the file's size.
CheckReachableFromZero(t) ==
    /\ pc[t] = "poll"
    /\ start_bytes' = [start_bytes EXCEPT ![t] = 0]
    /\ headers' = [headers EXCEPT ![t] = ResumeHeaders(0)]
    /\ pc' = [pc EXCEPT ![t] = "loop"]
    /\ cause' = [cause EXCEPT ![t] = "none"]
    /\ UNCHANGED <<poolVars, total_size, retries, status, bodyPos, fileVars, n,
                   progress_lock, envVars, temp0, final0, gets, errs, runs>>

\* Lines 60-63, 114, 117-118: _check_internet returns True; the offset is read
\* again from the temp file and the loop goes on.
CheckReachable(t) ==
    /\ pc[t] = "poll"
    /\ start_bytes' = [start_bytes EXCEPT ![t] = SizeOf(temp[t])]
    /\ headers' = [headers EXCEPT ![t] = ResumeHeaders(SizeOf(temp[t]))]
    /\ pc' = [pc EXCEPT ![t] = "loop"]
    /\ cause' = [cause EXCEPT ![t] = "none"]
    /\ UNCHANGED <<poolVars, total_size, retries, status, bodyPos, fileVars, n,
                   progress_lock, envVars, temp0, final0, gets, errs, runs>>

\* Lines 64-65, 114-116: _check_internet returns False; log and sleep.
CheckUnreachable(t) ==
    /\ pc[t] = "poll"
    /\ "unreachable" \in faults[t]
    /\ pc' = [pc EXCEPT ![t] = "pollsleep"]
    /\ UNCHANGED <<poolVars, localVars, fileVars, n, progress_lock, envVars, histVars>>

\* Lines 62, 64: the check's own GET raises something else than
\* requests.ConnectionError; nothing catches it and download_file raises.
CheckRaises(t) ==
    /\ pc[t] = "poll"
    /\ "checkraise" \in faults[t]
    /\ pc' = [pc EXCEPT ![t] = "raised"]
    /\ errs' = [errs EXCEPT ![t] = JoinErr(errs[t], "check")]
    /\ cause' = [cause EXCEPT ![t] = "none"]
    /\ UNCHANGED <<poolVars, localVars, fileVars, n, progress_lock, envVars,
                   temp0, final0, gets, runs>>

\* Line 116: the sleep of the poll loop ends.
PollSleep(t) ==
    /\ pc[t] = "pollsleep"
    /\ pc' = [pc EXCEPT ![t] = "poll"]
    /\ UNCHANGED <<poolVars, localVars, fileVars, n, progress_lock, envVars, histVars>>

\* Line 122: the sleep after a request-level error ends.
RetrySleep(t) ==
    /\ pc[t] = "retrysleep"
    /\ pc' = [pc EXCEPT ![t] = "loop"]
    /\ cause' = [cause EXCEPT ![t] = "none"]
    /\ UNCHANGED <<poolVars, localVars, fileVars, n, progress_lock, envVars,
                   temp0, final0, gets, errs, runs>>

\* The lock taken whether or not another worker holds it.
AcquireLockUnguarded(t) ==
    /\ pc[t] \in {"sc_lock", "ch_lock", "cl_lock"}
    /\ progress_lock' = t
    /\ pc' = [pc EXCEPT ![t] = CASE pc[t] = "sc_lock" -> "sc_upd"
                                 [] pc[t] = "ch_lock" -> "ch_upd"
                                 [] pc[t] = "cl_lock" -> "cl_upd"]
    /\ UNCHANGED <<poolVars, localVars, fileVars, n, envVars, histVars>>

\* Lines 79, 103, 108: with self.progress_lock.
AcquireLock(t) ==
    /\ pc[t] \in {"sc_lock", "ch_lock", "cl_lock"}
    /\ progress_lock = "free"
    /\ progress_lock' = t
    /\ pc' = [pc EXCEPT ![t] = CASE pc[t] = "sc_lock" -> "sc_upd"
                                 [] pc[t] = "ch_lock" -> "ch_upd"
                                 [] pc[t] = "cl_lock" -> "cl_upd"]
    /\ UNCHANGED <<poolVars, localVars, fileVars, n, envVars, histVars>>

\* Lines 80-82: the short cut sets the bar to total_size and returns.
UpdateShort(t) ==
    /\ pc[t] = "sc_upd"
    /\ n' = [n EXCEPT ![t] = total_size[t]]
    /\ progress_lock' = "free"
    /\ pc' = [pc EXCEPT ![t] = "completed"]
    /\ UNCHANGED <<poolVars, localVars, fileVars, envVars, histVars>>

\* The per-chunk update that goes back to the body with the lock held.
UpdateChunkKeepLock(t) ==
    /\ pc[t] = "ch_upd"
    /\ n' = [n EXCEPT ![t] = n[t] + 1]
    /\ pc' = [pc EXCEPT ![t] = "iter"]
    /\ UNCHANGED <<poolVars, localVars, fileVars, progress_lock, envVars, histVars>>

\* Line 104: progress_bar.update(len(chunk)).
UpdateChunk(t) ==
    /\ pc[t] = "ch_upd"
    /\ n' = [n EXCEPT ![t] = n[t] + 1]
    /\ progress_lock' = "free"
    /\ pc' = [pc EXCEPT ![t] = "iter"]
    /\ UNCHANGED <<poolVars, localVars, fileVars, envVars, histVars>>

\* Lines 109-111: the closing update sets the bar to total_size and returns.
UpdateClose(t) ==
    /\ pc[t] = "cl_upd"
    /\ n' = [n EXCEPT ![t] = total_size[t]]
    /\ progress_lock' = "free"
    /\ pc' = [pc EXCEPT ![t] = "completed"]
    /\ UNCHANGED <<poolVars, localVars, fileVars, envVars, histVars>>

\* ------------------------------------------------------------ specification
Worker(t) ==
    \/ StartWorker(t)
    \/ Begin(t)
    \/ IssueGet(t)
    \/ GiveUp(t)
    \/ GetOK(t)
    \/ GetRequestError(t)
    \/ GetConnectionLost(t)
    \/ StreamChunk(t)
    \/ StreamEnd(t)
    \/ Replace(t)
    \/ StreamRequestError(t)
    \/ StreamConnectionLost(t)
    \/ CheckReachable(t)
    \/ CheckUnreachable(t)
    \/ CheckRaises(t)
    \/ PollSleep(t)
    \/ RetrySleep(t)
    \/ AcquireLock(t)
    \/ UpdateShort(t)
    \/ UpdateChunk(t)
    \/ UpdateClose(t)

Main == Submit \/ (\E t \in Targets : Collect(t)) \/ CloseBars

Next == Main \/ (\E t \in Targets : Worker(t))

Spec == Init /\ [][Next]_vars

\* Threads are scheduled fairly and every blocking call returns (the requests
\* carry timeouts, the sleeps are finite): a thread that can take a step
\* eventually takes one.  Nothing is assumed about which outcome a call has.
FairSpec == Spec /\ WF_vars(Main) /\ \A t \in Targets : WF_vars(Worker(t))

\* The phase of the specification's state machine that a position of
\* download_file belongs to.
Phase(t) ==
    CASE pc[t] \in {"idle", "queued", "probe"} -> "Probing"
      [] pc[t] \in {"loop", "get", "retrysleep", "poll", "pollsleep"} ->
            IF headers[t] = NoRange THEN "Starting" ELSE "Resuming"
      [] pc[t] \in {"iter", "ch_lock", "ch_upd"} -> "Streaming"
      [] pc[t] = "replace" -> "Finalizing"
      [] pc[t] \in {"sc_lock", "sc_upd", "cl_lock", "cl_upd", "completed"} -> "Completed"
      [] pc[t] \in {"failed", "raised"} -> "Failed"

\* ------------------------------------------------------------ claims
\* C1 (bounded retries): while every attempt so far ended in a request-level
\* error, at most MaxRetries + 1 GETs have been issued, and a transfer that
\* failed after only such errors issued exactly MaxRetries + 1.
C1_BoundedRetries ==
    \A t \in Targets :
        /\ gets[t] <= MaxRetries + 1
        /\ (pc[t] = "failed" /\ errs[t] = "req") => gets[t] = MaxRetries + 1

C1_Witness ==
    \E t \in Targets : pc[t] = "failed" /\ errs[t] = "req" /\ gets[t] = MaxRetries + 1

\* C2 (connectivity losses are not counted): a transfer that met only errors
\* of the connectivity class has retries = 0 and has neither failed nor raised.
C2_ConnLossNotCounted ==
    \A t \in Targets :
        errs[t] \in {"none", "conn"} => retries[t] = 0 /\ pc[t] \notin {"failed", "raised"}

C2_Witness ==
    \E t \in Targets :
        pc[t] = "completed" /\ errs[t] = "conn" /\ interrupts[t] = MaxInterrupts

\* C3 (resume correctness): a transfer that starts with k bytes in the temp
\* file, 0 < k < total_size, sends its first GET with Range k and, once
\* completed, leaves a final file of total_size bytes.
C3_ResumeCorrect ==
    \A t \in Targets :
        (0 < SizeOf(temp0[t]) /\ SizeOf(temp0[t]) < total_size[t]) =>
            /\ (pc[t] = "get" /\ gets[t] = 1) => headers[t] = SizeOf(temp0[t])
            /\ pc[t] = "completed" => SizeOf(final[t]) = total_size[t]


\* No transfer is handling a connectivity loss.
NoLoss == \A t \in Targets : pc[t] \notin {"poll", "pollsleep"}

\* C4 (isolation): a submitted target whose server and network never fail is
\* eventually Completed, whatever happens to the other target (retries
\* exhausted, an exception raised), unless a transfer keeps losing its
\* connection for ever.
C4_Isolation ==
    (<>[]NoLoss) =>
        <>(\A t \in SeqToSet(urls) : faults[t] = {} => pc[t] = "completed")

C4_Witness ==
    \E t, u \in Targets :
        /\ faults[t] = {}
        /\ pc[t] = "completed"
        /\ pc[u] \in {"failed", "raised"}
        /\ max_workers = 1
        /\ mainpc = "done"

\* C5 (idempotent completion): when the file at the completed location has
\* the probed size, the transfer goes straight to the short cut: no GET is
\* issued, neither file changes, and it completes with the bar at total_size.
C5_IdempotentCompletion ==
    \A t \in Targets :
        (/\ pc[t] \notin {"idle", "queued", "probe"}
         /\ Exists(final0[t])
         /\ SizeOf(final0[t]) = total_size[t]) =>
            /\ pc[t] \in {"sc_lock", "sc_upd", "completed"}
            /\ gets[t] = 0
            /\ temp[t] = temp0[t]
            /\ final[t] = final0[t]
            /\ pc[t] = "completed" => n[t] = total_size[t]

C5_Witness ==
    \E t \in Targets :
        /\ pc[t] = "completed"
        /\ final0[t] = Body
        /\ total_size[t] = FileChunks
        /\ Exists(temp0[t])
        /\ n[t] = FileChunks

\* C6 (failure semantics): download_file never ends by raising.
C6_NoException == \A t \in Targets : pc[t] # "raised"

RefusedStep(t) ==
    /\ pc[t] = "get"
    /\ pc'[t] = "iter"
    /\ headers[t] # NoRange
    /\ status'[t] # 206

\* C8 (resume-unsupported restart): a refused range request leaves
\* start_bytes = 0 and an empty temp file, streams the body from its start and
\* does not change retries; a transfer completed on a 200 response leaves
\* exactly the body at the completed location.
C8_RestartOnRefusedResume ==
    /\ [][\A t \in Targets :
            RefusedStep(t) =>
                /\ start_bytes'[t] = 0
                /\ temp'[t] = <<>>
                /\ bodyPos'[t] = 0
                /\ retries'[t] = retries[t]]_vars
    /\ [](\A t \in Targets : (pc[t] = "completed" /\ status[t] = 200) => final[t] = Body)

C8_Witness ==
    \E t \in Targets :
        /\ pc[t] = "completed"
        /\ status[t] = 200
        /\ gets[t] = 1
        /\ SizeOf(temp0[t]) > 0
        /\ final[t] = Body

\* The restart of lines 91-94: a response that is not a 206 arrives while
\* start_bytes > 0.
RestartStep(t) ==
    /\ pc[t] = "get"
    /\ pc'[t] = "iter"
    /\ start_bytes[t] > 0
    /\ status'[t] # 206

\* C9 (monotonic progress): start_bytes never decreases, except in a restart
\* step, which sets it to 0 and empties the temp file.
C9_MonotonicProgress ==
    [][\A t \in Targets :
          \/ start_bytes'[t] >= start_bytes[t]
          \/ /\ RestartStep(t)
             /\ start_bytes'[t] = 0
             /\ temp'[t] = <<>>]_vars

C9_Witness ==
    \E t \in Targets :
        /\ pc[t] = "completed"
        /\ status[t] = 200
        /\ errs[t] = "mixed"
        /\ interrupts[t] > 0
        /\ SizeOf(temp0[t]) > 0

\* C10 as stated (file-location invariant): the file is at the completed
\* location iff the phase is Completed, and a temp file exists only in the
\* phases Resuming, Starting, Streaming and Finalizing.
C10_FileLocationOriginal ==
    \A t \in Targets :
        pc[t] \notin {"idle", "queued"} =>
            /\ Exists(final[t]) <=> Phase(t) = "Completed"
            /\ Exists(temp[t]) =>
                  Phase(t) \in {"Resuming", "Starting", "Streaming", "Finalizing"}

\* C10 as amended: in phase Completed the file is at the completed location;
\* in every other phase that location is as the transfer found it; the temp
\* file exists throughout Streaming and Finalizing, is gone once a transfer
\* that fetched the body is Completed, and is otherwise never removed.
C10_FileLocation ==
    \A t \in SeqToSet(urls) :
        /\ Phase(t) = "Completed" => Exists(final[t])
        /\ Phase(t) # "Completed" => final[t] = final0[t]
        /\ Phase(t) \in {"Streaming", "Finalizing"} => Exists(temp[t])
        /\ (Phase(t) = "Completed" /\ gets[t] # 0) => ~Exists(temp[t])
        /\ (Exists(temp0[t]) /\ ~(Phase(t) = "Completed" /\ gets[t] # 0)) => Exists(temp[t])

C10_Witness ==
    /\ \E t \in SeqToSet(urls) :
          pc[t] = "failed" /\ ~Exists(temp0[t]) /\ Exists(temp[t]) /\ ~Exists(final[t])
    /\ \E t \in SeqToSet(urls) :
          pc[t] = "completed" /\ gets[t] # 0 /\ Exists(final[t])


\* C11 (worker-pool scheduling): download_file is entered at most once per
\* target and never for a target that was not submitted, at most max_workers
\* transfers run at any time, and when download_files returns it was entered
\* exactly once for every submitted target.
C11_PoolScheduling ==
    /\ Cardinality(Running) <= max_workers
    /\ \A t \in Targets :
          /\ runs[t] <= 1
          /\ t \notin SeqToSet(urls) => runs[t] = 0
          /\ (mainpc = "done" /\ t \in SeqToSet(urls)) => runs[t] = 1

C11_Witness ==
    /\ Len(urls) = 2
    /\ max_workers = 1
    /\ queue = <<>>
    /\ \E t, u \in Targets : pc[t] = "failed" /\ pc[u] = "iter"

\* C12 (resume offset recomputed on every attempt): every GET in flight
\* carries no Range header when the temp file holds 0 bytes and Range:
\* bytes=k- when it holds k > 0 bytes, and while the body is being written
\* the next body byte lands at the offset equal to the temp file's size.
C12_OffsetRecomputed ==
    \A t \in Targets :
       /\ pc[t] = "get" =>
             headers[t] = IF SizeOf(temp[t]) > 0 THEN SizeOf(temp[t]) ELSE NoRange
       /\ pc[t] = "iter" => bodyPos[t] = SizeOf(temp[t])

\* C13 (no short cut for an unknown size): a transfer whose probed total
\* size is 0 never takes the already-downloaded short cut, whatever file is
\* at the completed location, and is completed only after issuing a GET.
C13_NoShortCircuitUnknownSize ==
    \A t \in Targets :
       (pc[t] \notin {"idle", "queued", "probe"} /\ total_size[t] = 0) =>
          /\ pc[t] \notin {"sc_lock", "sc_upd"}
          /\ pc[t] = "completed" => gets[t] # 0

\* C14 (timeout classification): whenever the exception being handled came
\* from the 30 s timeout of the main request (while connecting, waiting for
\* the response or reading the body), the transfer is in the request-level
\* handler (retry counted, sleeping retryDelay) and never in the connectivity
\* poll loop.
C14_TimeoutIsRequestLevel ==
    \A t \in Targets :
       cause[t] \in TimeoutEvents => pc[t] = "retrysleep"

\* The worker of t is inside one of the three progress updates.
InUpdate(t) == pc[t] \in {"sc_upd", "ch_upd", "cl_upd"}

\* C15 (progress lock): a worker inside a progress update (short cut, per
\* chunk, closing) holds progress_lock, no two workers are inside an update
\* at the same time, and a running worker changes a bar only while it holds
\* the lock.
C15_ProgressMutex ==
    /\ [](\A t \in Targets : InUpdate(t) => progress_lock = t)
    /\ [](Cardinality({t \in Targets : InUpdate(t)}) <= 1)
    /\ [][\A t \in Targets :
            (t \in Running /\ n'[t] # n[t]) => (InUpdate(t) /\ progress_lock = t)]_vars

C15_Witness ==
    \E t, u \in Targets :
       /\ t # u
       /\ InUpdate(t)
       /\ progress_lock = t
       /\ pc[u] \in {"sc_lock", "ch_lock", "cl_lock"}

\* The worker of t is blocked outside the lock's scope: in the connectivity
\* poll loop, in a retryDelay sleep, or in network I/O (probe, GET, body).
Blocked(t) == pc[t] \in {"poll", "pollsleep", "retrysleep", "probe", "get", "iter"}

\* C16 (blocking is per worker): a worker in the connectivity poll loop, in
\* a retryDelay sleep or blocked in network I/O never holds progress_lock,
\* and when every target has a worker of its own each healthy target is
\* eventually Completed, however long a sibling stays blocked.
C16_BlockingPerWorker ==
    /\ [](\A t \in Targets : Blocked(t) => progress_lock # t)
    /\ (max_workers >= Len(urls)) =>
          <>(\A t \in SeqToSet(urls) : faults[t] = {} => pc[t] = "completed")

C16_Witness ==
    \E t, u \in Targets :
       /\ t # u
       /\ pc[u] \in {"poll", "pollsleep"}
       /\ progress_lock # u
       /\ faults[t] = {}
       /\ gets[t] # 0
       /\ pc[t] = "completed"

\* C17 (closing reconciliation): a transfer completed by fetching the body
\* has moved the temp file to the completed location before the closing
\* update, and its bar then shows total_size when the size is known and the
\* number of bytes written when the size was unknown (total_size = 0).
C17_ClosingReconciliation ==
    \A t \in Targets :
       /\ pc[t] \in {"cl_lock", "cl_upd"} => (Exists(final[t]) /\ ~Exists(temp[t]))
       /\ (pc[t] = "completed" /\ gets[t] # 0) =>
             n[t] = IF total_size[t] > 0 THEN total_size[t] ELSE SizeOf(final[t])

\* C18 (shutdown ordering): the bars are closed and download_files has
\* returned only when every submitted target is terminal (completed, failed
\* or raised), and once the bars are closed no bar is updated and no worker
\* takes a step.
C18_ShutdownOrdering ==
    /\ []((closed \/ mainpc = "done") =>
            (closed /\ mainpc = "done" /\ queue = <<>>
               /\ \A t \in SeqToSet(urls) : pc[t] \in Terminal))
    /\ [][closed => (n' = n /\ pc' = pc /\ progress_lock' = progress_lock)]_vars

C18_Witness ==
    /\ closed
    /\ mainpc = "done"
    /\ \E t, u \in SeqToSet(urls) :
          /\ pc[t] = "raised"
          /\ pc[u] = "completed"
          /\ gets[u] # 0

\* C19 (cumulative retry budget): retries stays within 0 .. max_retries + 1
\* and never decreases, whatever recoveries, restarts and streamed chunks lie
\* between the failures; a transfer is Failed only with retries =
\* max_retries + 1, and once retries has that value the transfer issues no
\* further GET and can only end Failed.
C19_CumulativeBudget ==
    /\ [](\A t \in Targets :
            /\ retries[t] \in 0 .. (MaxRetries + 1)
            /\ pc[t] = "failed" => retries[t] = MaxRetries + 1
            /\ retries[t] = MaxRetries + 1 => pc[t] \in {"retrysleep", "loop", "failed"})
    /\ [][\A t \in Targets : retries'[t] >= retries[t]]_vars

C19_Witness ==
    \E t \in Targets :
       /\ pc[t] = "failed"
       /\ retries[t] = MaxRetries + 1
       /\ errs[t] = "mixed"
       /\ interrupts[t] > 0
       /\ SizeOf(temp[t]) > SizeOf(temp0[t])

\* The move of line 106 has been executed for t.
Moved(t) == pc[t] \in {"cl_lock", "cl_upd"} \/ (pc[t] = "completed" /\ gets[t] # 0)

\* C20 (frame of the completed location): until the move the file at the
\* completed location is as the transfer found it, in particular while
\* retrying and after Failed; the only step that writes that location is
\* the move, taken after the body ended without error and the temp file was
\* closed, never taken twice, and after it the temp file does not exist.
C20_FinalOnlyByMove ==
    /\ [](\A t \in Targets :
            /\ ~Moved(t) => final[t] = final0[t]
            /\ Moved(t) => (~Exists(temp[t]) /\ Exists(final[t])))
    /\ [][\A t \in Targets :
            /\ final'[t] # final[t] =>
                  (pc[t] = "replace" /\ Moved(t)' /\ final'[t] = temp[t])
            /\ pc'[t] = "replace" =>
                  (pc[t] = "replace" \/ (pc[t] = "iter" /\ bodyPos[t] = FileChunks))
            /\ Moved(t) => Moved(t)']_vars

C20_Witness ==
    \E t \in Targets :
       /\ pc[t] = "completed"
       /\ retries[t] > 0
       /\ Exists(final0[t])
       /\ final[t] # final0[t]
       /\ ~Exists(temp[t])

====
